---------------------------- MODULE Spec2Model ----------------------------
(***************************************************************************)
(* Model of maximize_profit.py: the single-transaction profit calculator,  *)
(* the Ticker / Sector entity model, the Datastore load and compile steps, *)
(* the console report and the CSV export.                                  *)
(*                                                                         *)
(* Python dicts keep insertion order, and the program iterates them, so a  *)
(* dict is modelled as a sequence of [k, v] entries.  Object references    *)
(* (Ticker.sector, Sector.tickerList) are modelled by the unique key of    *)
(* the referenced object in Datastore.sectors / Datastore.tickers; objects *)
(* are never removed, so a key identifies its object.                      *)
(***************************************************************************)
EXTENDS Integers, Sequences, FiniteSets, TLC

VARIABLES
    pc,              \* position in the __main__ step sequence
    error,           \* the uncaught exception that ended the run, or "none"
    tickers,         \* Datastore.tickers
    sectors,         \* Datastore.sectors
    dataSetProfits,  \* Datastore.dataSetProfits
    dataSetNames,    \* Datastore.dataSetNames
    mappingFile,     \* the mapping file read by loadMappingFromCSV
    dataFiles,       \* contents of the files named by dataSetNames
    failedDataSets,  \* files for which "Failed to load data set" was printed
    compileRuns,     \* number of compileData calls made so far
    report,          \* what displayMaximizeProfit printed
    exportRows,      \* rows written to output_profits.csv
    exportFailed,    \* exportDataToCSV took its except branch
    prices,          \* argument of a direct calculateProfit call
    profit,          \* its result
    calcDone         \* the direct call has returned

vars == <<pc, error, tickers, sectors, dataSetProfits, dataSetNames, mappingFile,
          dataFiles, failedDataSets, compileRuns, report, exportRows, exportFailed,
          prices, profit, calcDone>>

storeVars == <<tickers, sectors, dataSetProfits, dataSetNames>>
calcVars == <<prices, profit, calcDone>>

-----------------------------------------------------------------------------
(* Bounds of the model *)

\* longest price sequence given to a direct calculateProfit call
MaxLen == 4
\* largest price in such a sequence (the smallest is -1)
MaxPrice == 3
\* most rows in the mapping file of the mapping-load specification
MaxMapRows == 3
\* most price rows in all the data files of one run together
MaxRows == 3
\* most compileData calls in one run (__main__ makes one)
MaxCompileRuns == 2

-----------------------------------------------------------------------------
(* Python values *)

\* None, as the value of Ticker.sector; no sector is named like this
None == "None"

RECURSIVE SumSeq(_)
SumSeq(s) == IF s = <<>> THEN 0 ELSE s[1] + SumSeq(Tail(s))

PyMax(a, b) == IF b > a THEN b ELSE a

\* sequences over S of length at most n
SeqsUpTo(S, n) == UNION {[1..k -> S] : k \in 0..n}

(* dict: insertion-ordered sequence of [k, v] entries with unique keys *)
EmptyDict == <<>>
Has(d, key) == \E i \in 1..Len(d) : d[i].k = key
Get(d, key) == d[CHOOSE i \in 1..Len(d) : d[i].k = key].v
Put(d, key, val) ==
    IF Has(d, key)
    THEN [i \in 1..Len(d) |-> IF d[i].k = key THEN [k |-> key, v |-> val] ELSE d[i]]
    ELSE Append(d, [k |-> key, v |-> val])
Keys(d) == [i \in 1..Len(d) |-> d[i].k]
Values(d) == [i \in 1..Len(d) |-> d[i].v]
KeySet(d) == {d[i].k : i \in 1..Len(d)}
Range(s) == {s[i] : i \in 1..Len(s)}

-----------------------------------------------------------------------------
(* calculateProfit *)

\* float('inf') and finite numbers, as the values of currentMin
Inf == [inf |-> TRUE, val |-> 0]
Fin(n) == [inf |-> FALSE, val |-> n]

\* min(currentMin, price)
MinWith(currentMin, price) ==
    IF currentMin.inf \/ price < currentMin.val THEN Fin(price) ELSE currentMin

\* the loop body with the maximum taken over the current difference alone
CalcStepNoMax(acc, price) ==
    LET m == MinWith(acc.currentMin, price)
    IN  [currentMin |-> m, currentMax |-> price - m.val]

\* one iteration of the loop: lines 20-21
CalcStep(acc, price) ==
    LET m == MinWith(acc.currentMin, price)
    IN  [currentMin |-> m, currentMax |-> PyMax(acc.currentMax, price - m.val)]

RECURSIVE CalcLoop(_, _, _)
CalcLoop(acc, ps, i) ==
    IF i > Len(ps) THEN acc ELSE CalcLoop(CalcStep(acc, ps[i]), ps, i + 1)

calculateProfit(ps) ==
    CalcLoop([currentMin |-> Inf, currentMax |-> 0], ps, 1).currentMax

-----------------------------------------------------------------------------
(* Sector and Ticker *)

NewSector(name) == [name |-> name, tickerList |-> <<>>, profits |-> 0]

addTicker(sectorObj, tickerName) ==
    [sectorObj EXCEPT !.tickerList = Append(@, tickerName)]

\* Sector.addProfit writing "=" for "+="
addProfitAssign(sectorObj, p) == [sectorObj EXCEPT !.profits = p]

addProfit(sectorObj, p) == [sectorObj EXCEPT !.profits = @ + p]

NewTicker(name, sector) ==
    [name |-> name, sector |-> sector, totalProfits |-> 0,
     profits |-> EmptyDict, dataSets |-> EmptyDict]

addDataSet(tickerObj, dataSetName, dataSetPrices) ==
    IF Has(tickerObj.dataSets, dataSetName)
    THEN tickerObj
    ELSE [tickerObj EXCEPT !.dataSets = Put(@, dataSetName, dataSetPrices)]

\* Ticker.addTotalProfit writing "=" for "+="
addTotalProfitAssign(tickerObj, p) == [tickerObj EXCEPT !.totalProfits = p]

addTotalProfit(tickerObj, p) == [tickerObj EXCEPT !.totalProfits = @ + p]

-----------------------------------------------------------------------------
(* Datastore.loadMappingFromCSV *)

\* A mapping file: whether open() succeeds, and the rows csv.reader yields,
\* each row a sequence of string fields.
MappingFile(exists, rows) == [exists |-> exists, rows |-> rows]

\* dataRow[0] and dataRow[1] raise IndexError on a row with fewer fields
MapRowOk(dataRow) == Len(dataRow) >= 2

\* the loop body relinking a ticker that is named again
MapRowStepRelink(st, dataRow) ==
    LET tickerName == dataRow[1]
        sectorName == dataRow[2]
        secs == IF Has(st.sectors, sectorName)
                THEN st.sectors
                ELSE Put(st.sectors, sectorName, NewSector(sectorName))
    IN  [tickers |-> Put(st.tickers, tickerName, NewTicker(tickerName, sectorName)),
         sectors |-> Put(secs, sectorName, addTicker(Get(secs, sectorName), tickerName))]

\* the loop body for one well-formed row: lines 45-56
MapRowStep(st, dataRow) ==
    LET tickerName == dataRow[1]
        sectorName == dataRow[2]
        secs == IF Has(st.sectors, sectorName)
                THEN st.sectors
                ELSE Put(st.sectors, sectorName, NewSector(sectorName))
    IN  IF ~Has(st.tickers, tickerName)
        THEN [tickers |-> Put(st.tickers, tickerName, NewTicker(tickerName, sectorName)),
              sectors |-> Put(secs, sectorName, addTicker(Get(secs, sectorName), tickerName))]
        ELSE [tickers |-> st.tickers, sectors |-> secs]

\* the for loop; an exception in a row ends it, keeping what was loaded
RECURSIVE MapLoop(_, _, _)
MapLoop(st, rows, i) ==
    IF i > Len(rows) \/ ~MapRowOk(rows[i])
    THEN st
    ELSE MapLoop(MapRowStep(st, rows[i]), rows, i + 1)

LoadMapping(st, file) ==
    IF file.exists THEN MapLoop(st, file.rows, 1) ELSE st

-----------------------------------------------------------------------------
(* Datastore.loadDatafromCSV *)

\* A price field is a sequence of tokens: brackets, a run of digits that
\* int() accepts (with its value), or other text.
LB == [kind |-> "[", num |-> 0]
RB == [kind |-> "]", num |-> 0]
Num(n) == [kind |-> "num", num |-> n]
Txt == [kind |-> "txt", num |-> 0]
Bracketed(n) == <<LB, Num(n), RB>>

IsBracket(tok) == tok.kind \in {"[", "]"}

\* price.strip("[]")
RECURSIVE LStrip(_)
LStrip(f) == IF f # <<>> /\ IsBracket(f[1]) THEN LStrip(Tail(f)) ELSE f
RECURSIVE RStrip(_)
RStrip(f) ==
    IF f # <<>> /\ IsBracket(f[Len(f)]) THEN RStrip(SubSeq(f, 1, Len(f) - 1)) ELSE f
Strip(f) == RStrip(LStrip(f))

\* int(s) raises ValueError unless s is one run of digits
IntOk(s) == Len(s) = 1 /\ s[1].kind = "num"
IntOf(s) == s[1].num

\* lines 82-85: IndexError on an empty row, ValueError on an unparsable price
RowOk(dataRow) ==
    /\ Len(dataRow) >= 1
    /\ \A j \in 2..Len(dataRow) : IntOk(Strip(dataRow[j]))
RowPrices(dataRow) == [j \in 1..(Len(dataRow) - 1) |-> IntOf(Strip(dataRow[j + 1]))]

\* os.path.basename of a path given as its components
basename(fileName) == fileName[Len(fileName)]

\* lines 87-94 for a parsed row
DataRowStep(tks, key, dataRow) ==
    LET tickerName == dataRow[1]
    IN  IF Has(tks, tickerName)
        THEN Put(tks, tickerName, addDataSet(Get(tks, tickerName), key, RowPrices(dataRow)))
        ELSE Put(tks, tickerName, NewTicker(tickerName, None))

\* the rows of one file; an exception in a row ends the file
RECURSIVE FileLoop(_, _, _, _)
FileLoop(tks, key, rows, i) ==
    IF i > Len(rows) THEN [tickers |-> tks, failed |-> FALSE]
    ELSE IF ~RowOk(rows[i]) THEN [tickers |-> tks, failed |-> TRUE]
    ELSE FileLoop(DataRowStep(tks, key, rows[i]), key, rows, i + 1)

\* the for loop over dataSetNames: lines 69-98
RECURSIVE LoadData(_, _, _)
LoadData(st, files, n) ==
    IF n > Len(files) THEN st
    ELSE LET key == basename(files[n].name)
             r == FileLoop(st.tickers, key, files[n].rows, 1)
         IN  LoadData([tickers |-> r.tickers,
                       dataSetProfits |-> Put(st.dataSetProfits, key, EmptyDict),
                       failed |-> IF r.failed THEN st.failed \cup {files[n].name}
                                  ELSE st.failed],
                      files, n + 1)

-----------------------------------------------------------------------------
(* Datastore.compileData *)

\* the (tickerKey, dataSetKey) pairs in the order the nested loops visit them
RECURSIVE CompilePairs(_, _)
CompilePairs(tks, i) ==
    IF i > Len(tks) THEN <<>>
    ELSE [j \in 1..Len(tks[i].v.dataSets) |->
             [tickerKey |-> tks[i].k, dataSetKey |-> tks[i].v.dataSets[j].k]]
         \o CompilePairs(tks, i + 1)

\* lines 132-138; tickerObj.sector.addProfit raises AttributeError on None
CompileStep(st, tickerKey, dataSetKey) ==
    LET tickerObj == Get(st.tickers, tickerKey)
        maxProfit == calculateProfit(Get(tickerObj.dataSets, dataSetKey))
        updated == addTotalProfit(
                       [tickerObj EXCEPT !.profits = Put(@, dataSetKey, maxProfit)],
                       maxProfit)
    IN  IF tickerObj.sector = None
        THEN [st EXCEPT !.tickers = Put(@, tickerKey, updated),
                        !.error = "AttributeError"]
        ELSE [st EXCEPT
                 !.tickers = Put(@, tickerKey, updated),
                 !.sectors = Put(@, tickerObj.sector,
                                 addProfit(Get(@, tickerObj.sector), maxProfit)),
                 !.dataSetProfits = Put(@, dataSetKey,
                                        Put(Get(@, dataSetKey), tickerKey, maxProfit))]

RECURSIVE CompileLoop(_, _, _)
CompileLoop(st, pairs, i) ==
    IF i > Len(pairs) \/ st.error # "none" THEN st
    ELSE CompileLoop(CompileStep(st, pairs[i].tickerKey, pairs[i].dataSetKey),
                     pairs, i + 1)

Compile(tks, secs, dsp) ==
    CompileLoop([tickers |-> tks, sectors |-> secs, dataSetProfits |-> dsp,
                 error |-> "none"],
                CompilePairs(tks, 1), 1)

-----------------------------------------------------------------------------
(* Datastore.displayMaximizeProfit *)

\* max() of a non-empty sequence
RECURSIVE MaxOf(_)
MaxOf(s) == IF Len(s) = 1 THEN s[1] ELSE PyMax(s[1], MaxOf(Tail(s)))

\* [key for key, value in d.items() if value == val]
RECURSIVE KeysWithValue(_, _)
KeysWithValue(d, val) ==
    IF d = <<>> THEN <<>>
    ELSE (IF d[1].v = val THEN <<d[1].k>> ELSE <<>>) \o KeysWithValue(Tail(d), val)

\* the running maximum of lines 158-160 and 168-170, starting from 0
RECURSIVE MaxFromZero(_)
MaxFromZero(s) == IF s = <<>> THEN 0 ELSE PyMax(s[Len(s)], MaxFromZero(SubSeq(s, 1, Len(s) - 1)))

\* the report line of one data set, keeping the first ticker at the maximum only
DataSetLineFirst(dataSetKey, profits) ==
    LET maximumProfit == MaxOf(Values(profits))
    IN  [dataSet |-> dataSetKey,
         maximumTickers |-> SubSeq(KeysWithValue(profits, maximumProfit), 1, 1),
         maximumProfit |-> maximumProfit]

\* lines 150-152, for a data set with at least one profit
DataSetLine(dataSetKey, profits) ==
    LET maximumProfit == MaxOf(Values(profits))
    IN  [dataSet |-> dataSetKey,
         maximumTickers |-> KeysWithValue(profits, maximumProfit),
         maximumProfit |-> maximumProfit]

\* lines 148-152; max() of an empty sequence raises ValueError
RECURSIVE DataSetLines(_, _, _)
DataSetLines(dsp, i, lines) ==
    IF i > Len(dsp) THEN [lines |-> lines, error |-> "none"]
    ELSE IF dsp[i].v = EmptyDict THEN [lines |-> lines, error |-> "ValueError"]
    ELSE DataSetLines(dsp, i + 1, Append(lines, DataSetLine(dsp[i].k, dsp[i].v)))

\* the dict of name -> totalProfits, and of name -> Sector.profits
TickerTotals(tks) == [i \in 1..Len(tks) |-> [k |-> tks[i].k, v |-> tks[i].v.totalProfits]]
SectorTotals(secs) == [i \in 1..Len(secs) |-> [k |-> secs[i].k, v |-> secs[i].v.profits]]

\* the winners of a table of totals, stopping at the first one
BestOfFirst(totals) ==
    LET maximum == MaxFromZero(Values(totals))
        names == KeysWithValue(totals, maximum)
    IN  [maximum |-> maximum, names |-> IF names = <<>> THEN names ELSE <<names[1]>>]

\* lines 158-161 and 168-171
BestOf(totals) ==
    LET maximum == MaxFromZero(Values(totals))
    IN  [maximum |-> maximum, names |-> KeysWithValue(totals, maximum)]

NoReport ==
    [dataSets |-> <<>>, complete |-> FALSE,
     bestPerformingTickers |-> <<>>, maximumTotalTickerProfit |-> 0,
     bestPerformingSectors |-> <<>>, maximumSectorProfit |-> 0]

Display(tks, secs, dsp) ==
    LET d == DataSetLines(dsp, 1, <<>>)
        bt == BestOf(TickerTotals(tks))
        bs == BestOf(SectorTotals(secs))
    IN  IF d.error # "none"
        THEN [report |-> [NoReport EXCEPT !.dataSets = d.lines], error |-> d.error]
        ELSE [report |-> [dataSets |-> d.lines, complete |-> TRUE,
                          bestPerformingTickers |-> bt.names,
                          maximumTotalTickerProfit |-> bt.maximum,
                          bestPerformingSectors |-> bs.names,
                          maximumSectorProfit |-> bs.maximum],
              error |-> "none"]

-----------------------------------------------------------------------------
(* Datastore.exportDataToCSV *)

SectorRows(secs) == [i \in 1..Len(secs) |-> <<secs[i].v.name, secs[i].v.profits>>]

TickerHeader(dsp) == <<"Ticker", "Sector", "Total Profit">> \o Keys(dsp)

\* line 119; tickerObj.sector.name raises AttributeError on None
TickerRow(tickerObj) ==
    <<tickerObj.name, tickerObj.sector, tickerObj.totalProfits>>
    \o Values(tickerObj.profits)

\* lines 118-119; the exception is caught on line 120, rows written so far stay
RECURSIVE TickerRows(_, _, _)
TickerRows(tks, i, rows) ==
    IF i > Len(tks) THEN [rows |-> rows, failed |-> FALSE]
    ELSE IF tks[i].v.sector = None THEN [rows |-> rows, failed |-> TRUE]
    ELSE TickerRows(tks, i + 1, Append(rows, TickerRow(tks[i].v)))

Export(tks, secs, dsp) ==
    TickerRows(tks, 1,
               <<<<"Sector", "Total Profit">>>> \o SectorRows(secs)
               \o <<<<>>, TickerHeader(dsp)>>)

-----------------------------------------------------------------------------
(* Inputs *)

TickerNames == {"AAA", "BBB"}
SectorNames == {"Tech", "Fin"}

\* rows of a mapping file: well-formed pairs, a one-field row, an empty row
MapRows ==
    {<<t, s>> : t \in TickerNames, s \in SectorNames} \cup {<<"AAA">>, <<>>}

\* every mapping file of at most MaxMapRows rows, and the missing file
MappingInputs ==
    {MappingFile(TRUE, rows) : rows \in SeqsUpTo(MapRows, MaxMapRows)}
    \cup {MappingFile(FALSE, <<>>)}

\* the mapping files of the full run: no file; two tickers in one sector; two
\* tickers in two sectors; one ticker named under two sectors; a row that
\* fails after the first, leaving BBB unmapped
MappingSamples ==
    {MappingFile(FALSE, <<>>),
     MappingFile(TRUE, <<<<"AAA", "Tech">>, <<"BBB", "Tech">>>>),
     MappingFile(TRUE, <<<<"AAA", "Tech">>, <<"BBB", "Fin">>>>),
     MappingFile(TRUE, <<<<"AAA", "Tech">>, <<"AAA", "Fin">>>>),
     MappingFile(TRUE, <<<<"AAA", "Tech">>, <<>>, <<"BBB", "Fin">>>>)}

\* the price fields of a row: [1],[5],[3] (profit 4) and 8,2,9 (profit 7)
PriceSamples ==
    {<<Bracketed(1), Bracketed(5), Bracketed(3)>>,
     <<<<Num(8)>>, <<Num(2)>>, <<Num(9)>>>>}

\* rows of a data file: a ticker with prices, or a row with an unparsable price
DataRows ==
    {<<t>> \o p : t \in TickerNames, p \in PriceSamples}
    \cup {<<"AAA", <<LB, Txt, RB>>>>}

\* what glob.glob("data/*.csv") can return: none, one or two files
FileNames == <<<<"data", "d1.csv">>, <<"data", "d2.csv">>>>
GlobResults == {SubSeq(FileNames, 1, n) : n \in 0..Len(FileNames)}

\* the contents of the named files, holding at most budget rows together
RECURSIVE FilesWithin(_, _)
FilesWithin(names, budget) ==
    IF names = <<>> THEN {<<>>}
    ELSE UNION {{<<[name |-> Head(names), rows |-> rows]>> \o rest :
                    rest \in FilesWithin(Tail(names), budget - Len(rows))} :
                rows \in SeqsUpTo(DataRows, budget)}

DataInputs == UNION {FilesWithin(names, MaxRows) : names \in GlobResults}

\* arguments of a direct calculateProfit call
PriceSeqs ==
    SeqsUpTo((-1)..MaxPrice, MaxLen) \cup {<<7, 1, 5, 3, 6, 4>>, <<7, 6, 4, 3, 1>>}

-----------------------------------------------------------------------------
(* The run: Datastore() and the five calls of __main__ *)

Init ==
    /\ pc = "loadMappingFromCSV"
    /\ error = "none"
    /\ tickers = EmptyDict
    /\ sectors = EmptyDict
    /\ dataSetProfits = EmptyDict
    /\ dataSetNames = <<>>
    /\ mappingFile = MappingFile(FALSE, <<>>)
    /\ dataFiles = <<>>
    /\ failedDataSets = {}
    /\ compileRuns = 0
    /\ report = NoReport
    /\ exportRows = <<>>
    /\ exportFailed = FALSE
    /\ prices = <<>>
    /\ profit = 0
    /\ calcDone = FALSE

loadMappingFromCSV(file) ==
    /\ pc = "loadMappingFromCSV"
    /\ LET st == LoadMapping([tickers |-> tickers, sectors |-> sectors], file)
       IN  /\ tickers' = st.tickers
           /\ sectors' = st.sectors
    /\ mappingFile' = file
    /\ pc' = "loadDatafromCSV"
    /\ UNCHANGED <<error, dataSetProfits, dataSetNames, dataFiles, failedDataSets,
                   compileRuns, report, exportRows, exportFailed, calcVars>>

loadDatafromCSV(files) ==
    /\ pc = "loadDatafromCSV"
    /\ dataSetNames' = [n \in 1..Len(files) |-> files[n].name]
    /\ LET st == LoadData([tickers |-> tickers, dataSetProfits |-> dataSetProfits,
                           failed |-> {}], files, 1)
       IN  /\ tickers' = st.tickers
           /\ dataSetProfits' = st.dataSetProfits
           /\ failedDataSets' = st.failed
    /\ dataFiles' = files
    /\ pc' = "compileData"
    /\ UNCHANGED <<error, sectors, mappingFile, compileRuns, report, exportRows,
                   exportFailed, calcVars>>

\* one call of compileData; an exception leaves it uncaught and ends the run
CompileCall ==
    /\ LET st == Compile(tickers, sectors, dataSetProfits)
       IN  /\ tickers' = st.tickers
           /\ sectors' = st.sectors
           /\ dataSetProfits' = st.dataSetProfits
           /\ error' = st.error
           /\ pc' = IF st.error = "none" THEN "displayMaximizeProfit" ELSE "aborted"
    /\ compileRuns' = compileRuns + 1
    /\ UNCHANGED <<dataSetNames, mappingFile, dataFiles, failedDataSets, report,
                   exportRows, exportFailed, calcVars>>

compileData ==
    /\ pc = "compileData"
    /\ CompileCall

\* a further call of compileData on the compiled store
compileDataAgain ==
    /\ pc = "displayMaximizeProfit"
    /\ compileRuns < MaxCompileRuns
    /\ CompileCall

displayMaximizeProfit ==
    /\ pc = "displayMaximizeProfit"
    /\ LET d == Display(tickers, sectors, dataSetProfits)
       IN  /\ report' = d.report
           /\ error' = d.error
           /\ pc' = IF d.error = "none" THEN "exportDataToCSV" ELSE "aborted"
    /\ UNCHANGED <<storeVars, mappingFile, dataFiles, failedDataSets, compileRuns,
                   exportRows, exportFailed, calcVars>>

exportDataToCSV ==
    /\ pc = "exportDataToCSV"
    /\ LET e == Export(tickers, sectors, dataSetProfits)
       IN  /\ exportRows' = e.rows
           /\ exportFailed' = e.failed
    /\ pc' = "done"
    /\ UNCHANGED <<error, storeVars, mappingFile, dataFiles, failedDataSets,
                   compileRuns, report, calcVars>>

Next ==
    \/ \E file \in MappingSamples : loadMappingFromCSV(file)
    \/ \E files \in DataInputs : loadDatafromCSV(files)
    \/ compileData
    \/ compileDataAgain
    \/ displayMaximizeProfit
    \/ exportDataToCSV

Spec == Init /\ [][Next]_vars

(* The mapping load alone, over every mapping file within the bound *)
NextMapping == \E file \in MappingInputs : loadMappingFromCSV(file)

SpecMapping == Init /\ [][NextMapping]_vars

(* A direct call of calculateProfit *)
InitCalc ==
    /\ pc = "calculateProfit"
    /\ error = "none"
    /\ tickers = EmptyDict
    /\ sectors = EmptyDict
    /\ dataSetProfits = EmptyDict
    /\ dataSetNames = <<>>
    /\ mappingFile = MappingFile(FALSE, <<>>)
    /\ dataFiles = <<>>
    /\ failedDataSets = {}
    /\ compileRuns = 0
    /\ report = NoReport
    /\ exportRows = <<>>
    /\ exportFailed = FALSE
    /\ prices \in PriceSeqs
    /\ profit = 0
    /\ calcDone = FALSE

calculateProfitCall ==
    /\ pc = "calculateProfit"
    /\ ~calcDone
    /\ profit' = calculateProfit(prices)
    /\ calcDone' = TRUE
    /\ UNCHANGED <<pc, error, storeVars, mappingFile, dataFiles, failedDataSets,
                   compileRuns, report, exportRows, exportFailed, prices>>

NextCalc == calculateProfitCall

SpecCalc == InitCalc /\ [][NextCalc]_vars

-----------------------------------------------------------------------------
(* Properties *)

SetMax(S) == CHOOSE m \in S : \A x \in S : x <= m

\* the best P[j] - P[i] over index pairs i <= j; 0 for the empty sequence
BestPair(ps) ==
    IF ps = <<>> THEN 0
    ELSE SetMax({ps[x[2]] - ps[x[1]] :
                    x \in {y \in (1..Len(ps)) \X (1..Len(ps)) : y[1] <= y[2]}})

\* C1: calculateProfit(P) is the maximum of P[j] - P[i] over all index pairs
\* i <= j, is 0 for an empty or one-element P, is never negative, and gives 5
\* for [7,1,5,3,6,4] and 0 for [7,6,4,3,1].
C1_CalculateProfit ==
    calcDone =>
        /\ profit = BestPair(prices)
        /\ profit >= 0
        /\ (Len(prices) <= 1 => profit = 0)
        /\ (prices = <<7, 1, 5, 3, 6, 4>> => profit = 5)
        /\ (prices = <<7, 6, 4, 3, 1>> => profit = 0)

C1_Witness == calcDone /\ prices = <<7, 1, 5, 3, 6, 4>> /\ profit = 5

\* C2: after the mapping load, the data load and one compileData, every
\* ticker's totalProfits is the sum of the values of its profits dict, for
\* mapped and unmapped tickers alike.
C2_TickerSumLaw ==
    compileRuns = 1 =>
        \A i \in 1..Len(tickers) :
            tickers[i].v.totalProfits = SumSeq(Values(tickers[i].v.profits))

C2_Witness ==
    /\ compileRuns = 1
    /\ \E i \in 1..Len(tickers) :
          /\ tickers[i].v.sector # None
          /\ tickers[i].v.profits # EmptyDict
          /\ tickers[i].v.totalProfits > 0
    /\ \E i \in 1..Len(tickers) :
          /\ tickers[i].v.sector = None
          /\ tickers[i].v.profits # EmptyDict
          /\ tickers[i].v.totalProfits > 0

\* the sum of totalProfits over the tickers whose sector link is sectorName
RECURSIVE LinkedTotal(_, _)
LinkedTotal(tks, sectorName) ==
    IF tks = <<>> THEN 0
    ELSE (IF tks[1].v.sector = sectorName THEN tks[1].v.totalProfits ELSE 0)
         + LinkedTotal(Tail(tks), sectorName)

\* C3: after the loads and compileData, every sector's profits is the sum of
\* totalProfits over exactly the tickers linked to it, also when the mapping
\* names one ticker under two sectors.
C3_SectorSumLaw ==
    compileRuns >= 1 =>
        \A i \in 1..Len(sectors) :
            sectors[i].v.profits = LinkedTotal(tickers, sectors[i].k)

C3_Witness ==
    /\ compileRuns = 1
    /\ mappingFile.rows = <<<<"AAA", "Tech">>, <<"AAA", "Fin">>>>
    /\ Has(sectors, "Fin")
    /\ Get(sectors, "Tech").profits > 0

\* the rows of a data file that are read before an exception ends the file
RECURSIVE ParsedRows(_)
ParsedRows(rows) ==
    IF rows = <<>> \/ ~RowOk(rows[1]) THEN <<>>
    ELSE <<rows[1]>> \o ParsedRows(Tail(rows))

\* C4: a ticker of the price data that the mapping does not name is created
\* without a sector, has the row of every data set it appears in attached
\* (the one that introduces it too), gets a profit for each of them in
\* compileData, adds to no sector's total, and does not make compileData fail.
C4_UnmappedTicker ==
    pc \notin {"loadMappingFromCSV", "loadDatafromCSV"} =>
        /\ error # "AttributeError"
        /\ \A n \in 1..Len(dataFiles) :
              LET rows == ParsedRows(dataFiles[n].rows)
                  key == basename(dataFiles[n].name)
              IN  \A j \in 1..Len(rows) :
                     /\ Has(tickers, rows[j][1])
                     /\ LET tickerObj == Get(tickers, rows[j][1])
                        IN  tickerObj.sector = None =>
                               /\ Has(tickerObj.dataSets, key)
                               /\ compileRuns >= 1 => Has(tickerObj.profits, key)
        /\ \A i \in 1..Len(sectors) :
              sectors[i].v.profits = LinkedTotal(tickers, sectors[i].k)

\* C5 as claimed: a second compileData leaves every Ticker.totalProfits, every
\* Sector.profits and every entry of the data set profit table as the first
\* run left them.
C5_Idempotent ==
    [][(compileRuns = 1 /\ compileRuns' = 2) =>
          /\ TickerTotals(tickers') = TickerTotals(tickers)
          /\ SectorTotals(sectors') = SectorTotals(sectors)
          /\ dataSetProfits' = dataSetProfits]_vars

\* the sum of the per-data-set profits of the tickers linked to sectorName
RECURSIVE LinkedProfits(_, _)
LinkedProfits(tks, sectorName) ==
    IF tks = <<>> THEN 0
    ELSE (IF tks[1].v.sector = sectorName THEN SumSeq(Values(tks[1].v.profits)) ELSE 0)
         + LinkedProfits(Tail(tks), sectorName)

\* C5 amended: a further compileData leaves the data set profit table and
\* every Ticker.profits unchanged and adds each ticker's per-data-set profits
\* to its totalProfits, and to its sector's profits, once more; the totals
\* after the second run are twice those after the first.
C5_SecondRunAccumulates ==
    [][(compileRuns >= 1 /\ compileRuns' = compileRuns + 1) =>
          /\ dataSetProfits' = dataSetProfits
          /\ Keys(tickers') = Keys(tickers)
          /\ Keys(sectors') = Keys(sectors)
          /\ \A i \in 1..Len(tickers) :
                /\ tickers'[i].v.profits = tickers[i].v.profits
                /\ tickers'[i].v.totalProfits =
                      tickers[i].v.totalProfits + SumSeq(Values(tickers[i].v.profits))
                /\ compileRuns = 1 =>
                      tickers'[i].v.totalProfits = 2 * tickers[i].v.totalProfits
          /\ \A i \in 1..Len(sectors) :
                /\ sectors'[i].v.profits =
                      sectors[i].v.profits + LinkedProfits(tickers, sectors[i].k)
                /\ compileRuns = 1 =>
                      sectors'[i].v.profits = 2 * sectors[i].v.profits]_vars

C5_Witness ==
    /\ compileRuns = 2
    /\ \E i \in 1..Len(tickers) :
          /\ tickers[i].v.totalProfits > 0
          /\ tickers[i].v.totalProfits = 2 * SumSeq(Values(tickers[i].v.profits))
    /\ \E i \in 1..Len(sectors) : sectors[i].v.profits > 0

\* the keys of a table of totals whose value is the maximum of 0 and every value
WinnersOf(totals) ==
    LET M == SetMax({0} \cup Range(Values(totals)))
    IN  {k \in KeySet(totals) : Get(totals, k) = M}

NoRepeats(s) == \A i, j \in 1..Len(s) : s[i] = s[j] => i = j

\* C6: the best-performing tickers reported are exactly the tickers whose
\* totalProfits is M, the maximum of 0 and every ticker's totalProfits: all
\* tied tickers, none below M; likewise the sectors over Sector.profits.
C6_BestPerforming ==
    report.complete =>
        /\ Range(report.bestPerformingTickers) = WinnersOf(TickerTotals(tickers))
        /\ NoRepeats(report.bestPerformingTickers)
        /\ report.maximumTotalTickerProfit =
              SetMax({0} \cup Range(Values(TickerTotals(tickers))))
        /\ Range(report.bestPerformingSectors) = WinnersOf(SectorTotals(sectors))
        /\ NoRepeats(report.bestPerformingSectors)
        /\ report.maximumSectorProfit =
              SetMax({0} \cup Range(Values(SectorTotals(sectors))))

C6_Witness ==
    /\ report.complete
    /\ Len(report.bestPerformingTickers) = 2
    /\ report.maximumTotalTickerProfit > 0
    /\ report.bestPerformingSectors # <<>>

\* C7: for each data set of the profit table, the winners reported are exactly
\* the tickers whose profit in that data set is the maximum over the tickers
\* of its table.
C7_PerDataSetWinners ==
    /\ \A n \in 1..Len(report.dataSets) :
          LET line == report.dataSets[n]
              profits == Get(dataSetProfits, line.dataSet)
              M == SetMax(Range(Values(profits)))
          IN  /\ line.dataSet = dataSetProfits[n].k
              /\ line.maximumProfit = M
              /\ Range(line.maximumTickers) = {k \in KeySet(profits) : Get(profits, k) = M}
              /\ NoRepeats(line.maximumTickers)
    /\ report.complete => Len(report.dataSets) = Len(dataSetProfits)

C7_Witness ==
    /\ report.complete
    /\ \E n \in 1..Len(report.dataSets) : Len(report.dataSets[n].maximumTickers) = 2
    /\ Len(report.dataSets) = 2

\* C8: in the export every ticker row has one profit per data set column of
\* the header, the k-th being that ticker's profit for the header's k-th data
\* set, also for a ticker without a row in some data set.
C8_ExportColumns ==
    pc = "done" =>
        LET h == Len(sectors) + 3
            header == exportRows[h]
        IN  \A n \in (h + 1)..Len(exportRows) :
               LET row == exportRows[n]
                   tickerObj == Get(tickers, row[1])
               IN  /\ Len(row) = Len(header)
                   /\ \A c \in 4..Len(header) :
                         Has(tickerObj.profits, header[c]) =>
                            row[c] = Get(tickerObj.profits, header[c])

\* the rows of the mapping file that the load processes
RECURSIVE MappedRows(_)
MappedRows(rows) ==
    IF rows = <<>> \/ ~MapRowOk(rows[1]) THEN <<>>
    ELSE <<rows[1]>> \o MappedRows(Tail(rows))

RECURSIVE Count(_, _)
Count(s, e) == IF s = <<>> THEN 0 ELSE (IF s[1] = e THEN 1 ELSE 0) + Count(Tail(s), e)

RECURSIVE RosterCount(_, _)
RosterCount(secs, tickerName) ==
    IF secs = <<>> THEN 0
    ELSE Count(secs[1].v.tickerList, tickerName) + RosterCount(Tail(secs), tickerName)

\* C9: a ticker named again by the mapping file stays linked to the sector of
\* its first row and is on exactly one roster, once.
C9_FirstMappingWins ==
    pc = "loadDatafromCSV" =>
        LET rows == IF mappingFile.exists THEN MappedRows(mappingFile.rows) ELSE <<>>
        IN  /\ \A i \in 1..Len(rows) :
                  LET first == CHOOSE f \in 1..i :
                                   /\ rows[f][1] = rows[i][1]
                                   /\ \A g \in 1..(f - 1) : rows[g][1] # rows[i][1]
                  IN  /\ Has(tickers, rows[i][1])
                      /\ Get(tickers, rows[i][1]).sector = rows[first][2]
                      /\ Count(Get(sectors, rows[first][2]).tickerList, rows[i][1]) = 1
                      /\ RosterCount(sectors, rows[i][1]) = 1
            /\ KeySet(tickers) = {rows[i][1] : i \in 1..Len(rows)}

C9_Witness ==
    /\ pc = "loadDatafromCSV"
    /\ mappingFile.exists
    /\ \E i, j \in 1..Len(MappedRows(mappingFile.rows)) :
          /\ i < j
          /\ mappingFile.rows[i][1] = mappingFile.rows[j][1]
          /\ mappingFile.rows[i][2] # mappingFile.rows[j][2]

\* C10: no error aborts the run: whatever the mapping file and the data
\* files, the five calls of __main__ run to the end.
C10_RunCompletes == pc # "aborted"

=============================================================================
